---- MODULE Spec2Model ----
(***************************************************************************)
(* A model of the net_promoter_score crate (src/src/lib.rs): the validated *)
(* Rating, its Classification, SurveyResponse, and the Survey container    *)
(* with its insertion operations, its score cache and its queries.         *)
(***************************************************************************)
EXTENDS Integers, Sequences, FiniteSets, TLC

\* ---------------------------------------------------------------- bounds
MaxId == 3          \* respondent ids are 1..MaxId
MaxPairs == 2       \* longest input of add_multiple_responses
MaxGroups == 2      \* longest (rating, count) slice of the bulk operations
MaxCount == 2       \* largest count of one (rating, count) group
MaxItems == 1       \* longest iterator handed to extend
MaxResults == 2     \* longest iterator of results collected into a survey
MaxStart == 60      \* largest first id of the worked example's generator

\* ------------------------------------------------------- input universes
\* NpsRating = u8
U8 == 0 .. 255
Ids == 1 .. MaxId
\* raw ratings the survey operations are driven with: the top detractor,
\* a passive, the bottom promoter, and the smallest invalid value
RawRatings == {6, 8, 9, 11}

\* ------------------------------------------------------ Option / Result
None == << >>
Some(v) == << v >>
Ok(v) == [ok |-> TRUE, val |-> v]
Err(e) == [ok |-> FALSE, err |-> e]
Unit == "()"

\* NetPromoterScoreError::InvalidRating(u8)
InvalidRating(value) == [kind |-> "InvalidRating", value |-> value]

\* ---------------------------------------------------------------- Rating
\* struct Rating(u8); Deref gives the inner u8
Rating(value) == [inner |-> value]
Deref(rating) == rating.inner

\* a variant whose bound is off by one the other way: 11 is accepted
Rating_try_from_up_to_eleven(value) ==
    IF value <= 11 THEN Ok(Rating(value)) ELSE Err(InvalidRating(value))

\* a variant whose bound is off by one: 10 is rejected
Rating_try_from_below_ten(value) ==
    IF value < 10 THEN Ok(Rating(value)) ELSE Err(InvalidRating(value))

\* impl TryFrom<u8> for Rating
Rating_try_from(value) ==
    IF value <= 10 THEN Ok(Rating(value)) ELSE Err(InvalidRating(value))

\* a variant whose Detractor arm is 0..=7
Classification_from_ref_seven(score) ==
    CASE score.inner \in 0 .. 7 -> "Detractor"
      [] score.inner \in {8} -> "Passive"
      [] score.inner \in {9, 10} -> "Promoter"
      [] OTHER -> "unreachable"

\* impl From<&Rating> for Classification
Classification_from_ref(score) ==
    CASE score.inner \in 0 .. 6 -> "Detractor"
      [] score.inner \in {7, 8} -> "Passive"
      [] score.inner \in {9, 10} -> "Promoter"
      [] OTHER -> "unreachable"

\* impl From<Rating> for Classification
Classification_from(score) ==
    CASE score.inner \in 0 .. 6 -> "Detractor"
      [] score.inner \in {7, 8} -> "Passive"
      [] score.inner \in {9, 10} -> "Promoter"
      [] OTHER -> "unreachable"

\* -------------------------------------------------------- SurveyResponse
\* SurveyResponse::new: the ? operator returns the conversion's error as is
SurveyResponse_new(respondent_id, rating) ==
    LET nps_rating == Rating_try_from(rating)
    IN  IF nps_rating.ok
        THEN Ok([respondent_id |-> respondent_id, score |-> nps_rating.val])
        ELSE Err(nps_rating.err)

\* ---------------------------------------------------------------- Survey
\* A survey value is [responses |-> BTreeMap, nps_cache |-> Option<i32>];
\* the map is a function from its keys to the SurveyResponse stored there.
EmptyMap == [k \in {} |-> 0]
\* a variant that keeps the entry already stored under the key
MapInsert_keep(m, k, v) ==
    [x \in DOMAIN m \cup {k} |-> IF x \in DOMAIN m THEN m[x] ELSE v]

\* BTreeMap::insert: the value replaces the one stored under the key
MapInsert(m, k, v) == [x \in DOMAIN m \cup {k} |-> IF x = k THEN v ELSE m[x]]

\* Survey::new / Default
Survey_new == [responses |-> EmptyMap, nps_cache |-> None]

\* a variant that lists the keys from the greatest down
RECURSIVE KeysInOrder_descending(_)
KeysInOrder_descending(keys) ==
    IF keys = {} THEN << >>
    ELSE LET greatest == CHOOSE k \in keys : \A j \in keys : j <= k
         IN  << greatest >> \o KeysInOrder_descending(keys \ {greatest})

\* the keys of a BTreeMap in ascending order
RECURSIVE KeysInOrder(_)
KeysInOrder(keys) ==
    IF keys = {} THEN << >>
    ELSE LET least == CHOOSE k \in keys : \A j \in keys : k <= j
         IN  << least >> \o KeysInOrder(keys \ {least})

\* Survey::responses: BTreeMap::values, in key order
Survey_responses(s) ==
    LET ks == KeysInOrder(DOMAIN s.responses)
    IN  [i \in 1 .. Len(ks) |-> s.responses[ks[i]]]

\* impl IntoIterator for &Survey<T>: BTreeMap::values
into_iter_ref(s) ==
    LET ks == KeysInOrder(DOMAIN s.responses)
    IN  [i \in 1 .. Len(ks) |-> s.responses[ks[i]]]

\* impl IntoIterator for Survey<T>: BTreeMap::into_iter, (key, value) pairs
into_iter(s) ==
    LET ks == KeysInOrder(DOMAIN s.responses)
    IN  [i \in 1 .. Len(ks) |-> << ks[i], s.responses[ks[i]] >>]

\* a variant that stops at the first response of another classification
segment_take_while(s, classification) ==
    LET all == Survey_responses(s)
        Keep(i) == Classification_from_ref(all[i].score) = classification
        n == CHOOSE n \in 0 .. Len(all) :
                 /\ \A i \in 1 .. n : Keep(i)
                 /\ n < Len(all) => ~Keep(n + 1)
    IN  SubSeq(all, 1, n)

\* Survey::segment
segment(s, classification) ==
    LET Keep(response) == Classification_from_ref(response.score) = classification
    IN  SelectSeq(Survey_responses(s), Keep)

\* i32 division truncates toward zero
TruncDiv(a, b) ==
    IF (a >= 0) = (b > 0) THEN a \div b ELSE -((-a) \div b)

\* a variant that rounds each percentage to the nearest integer
calculate_nps_rounded(s) ==
    LET total_responses == Cardinality(DOMAIN s.responses)
    IN  IF total_responses = 0
        THEN [s EXCEPT !.nps_cache = Some(0)]
        ELSE LET promoters == Len(segment(s, "Promoter"))
                 detractors == Len(segment(s, "Detractor"))
                 promoter_percent ==
                     (200 * promoters + total_responses) \div (2 * total_responses)
                 detractor_percent ==
                     (200 * detractors + total_responses) \div (2 * total_responses)
             IN  [s EXCEPT !.nps_cache = Some(promoter_percent - detractor_percent)]

\* a variant that divides before it multiplies by 100
calculate_nps_divide_first(s) ==
    LET total_responses == Cardinality(DOMAIN s.responses)
    IN  IF total_responses = 0
        THEN [s EXCEPT !.nps_cache = Some(0)]
        ELSE LET promoters == Len(segment(s, "Promoter"))
                 detractors == Len(segment(s, "Detractor"))
                 promoter_percent == 100 * TruncDiv(promoters, total_responses)
                 detractor_percent == 100 * TruncDiv(detractors, total_responses)
             IN  [s EXCEPT !.nps_cache = Some(promoter_percent - detractor_percent)]

\* a variant that takes the percentages of the promoters and detractors
\* alone, leaving the passives out of the total
calculate_nps_no_passives(s) ==
    LET promoters == Len(segment(s, "Promoter"))
        detractors == Len(segment(s, "Detractor"))
        total_responses == promoters + detractors
    IN  IF total_responses = 0
        THEN [s EXCEPT !.nps_cache = Some(0)]
        ELSE LET promoter_percent == TruncDiv(100 * promoters, total_responses)
                 detractor_percent == TruncDiv(100 * detractors, total_responses)
             IN  [s EXCEPT !.nps_cache = Some(promoter_percent - detractor_percent)]

\* Survey::calculate_nps
calculate_nps(s) ==
    LET total_responses == Cardinality(DOMAIN s.responses)
    IN  IF total_responses = 0
        THEN [s EXCEPT !.nps_cache = Some(0)]
        ELSE LET promoters == Len(segment(s, "Promoter"))
                 detractors == Len(segment(s, "Detractor"))
                 promoter_percent == TruncDiv(100 * promoters, total_responses)
                 detractor_percent == TruncDiv(100 * detractors, total_responses)
             IN  [s EXCEPT !.nps_cache = Some(promoter_percent - detractor_percent)]

\* a variant that drops the cached score before it validates the rating
add_response_clears_first(s, respondent_id, score) ==
    LET response == SurveyResponse_new(respondent_id, score)
    IN  IF response.ok
        THEN [survey |-> [s EXCEPT !.responses =
                              MapInsert(s.responses, respondent_id, response.val)],
              result |-> Ok(Unit)]
        ELSE [survey |-> [s EXCEPT !.nps_cache = None],
              result |-> Err(response.err)]

\* Survey::add_response
add_response(s, respondent_id, score) ==
    LET response == SurveyResponse_new(respondent_id, score)
    IN  IF response.ok
        THEN [survey |-> [s EXCEPT !.responses =
                              MapInsert(s.responses, respondent_id, response.val)],
              result |-> Ok(Unit)]
        ELSE [survey |-> s, result |-> Err(response.err)]

\* a variant that stops at the first invalid pair
RECURSIVE AddEach_fail_fast(_, _, _)
AddEach_fail_fast(s, responses, errors) ==
    IF responses = << >> THEN [survey |-> s, errors |-> errors]
    ELSE LET r == add_response(s, Head(responses)[1], Head(responses)[2])
         IN  IF r.result.ok
             THEN AddEach_fail_fast(r.survey, Tail(responses), errors)
             ELSE [survey |-> r.survey, errors |-> Append(errors, r.result.err)]

\* the filter_map of add_multiple_responses: every pair goes through
\* add_response, the errors are collected in input order
RECURSIVE AddEach(_, _, _)
AddEach(s, responses, errors) ==
    IF responses = << >> THEN [survey |-> s, errors |-> errors]
    ELSE LET Added(r) ==
                 IF r.result.ok
                 THEN AddEach(r.survey, Tail(responses), errors)
                 ELSE AddEach(r.survey, Tail(responses), Append(errors, r.result.err))
         IN  Added(add_response(s, Head(responses)[1], Head(responses)[2]))

\* a variant that leaves the cached score alone when every pair was valid
add_multiple_responses_no_recompute(s, responses) ==
    LET Finish(done) ==
            IF done.errors = << >>
            THEN [survey |-> done.survey, result |-> Ok(Unit)]
            ELSE [survey |-> done.survey, result |-> Err(done.errors)]
    IN  Finish(AddEach(s, responses, << >>))

\* Survey::add_multiple_responses
add_multiple_responses(s, responses) ==
    LET Finish(done) ==
            IF done.errors = << >>
            THEN [survey |-> calculate_nps(done.survey), result |-> Ok(Unit)]
            ELSE [survey |-> done.survey, result |-> Err(done.errors)]
    IN  Finish(AddEach(s, responses, << >>))

\* E::from(NetPromoterScoreError): the caller's error type wraps the error
E_from(error) == [source |-> error]

\* a variant that hands out the survey whenever a pair was inserted
from_responses_keeps_partial(responses) ==
    LET r == add_multiple_responses(Survey_new, responses)
    IN  IF r.result.ok \/ r.survey.responses # EmptyMap
        THEN Ok(r.survey)
        ELSE Err([i \in 1 .. Len(r.result.err) |-> E_from(r.result.err[i])])

\* Survey::from_responses
from_responses(responses) ==
    LET Finish(r) ==
            IF r.result.ok
            THEN Ok(r.survey)
            ELSE Err([i \in 1 .. Len(r.result.err) |-> E_from(r.result.err[i])])
    IN  Finish(add_multiple_responses(Survey_new, responses))

\* Survey::score
Survey_score(s) ==
    IF s.nps_cache # None
    THEN [survey |-> s, result |-> s.nps_cache[1]]
    ELSE LET Scored(c) ==
                 [survey |-> c,
                  result |-> IF c.nps_cache # None THEN c.nps_cache[1] ELSE 0]
         IN  Scored(calculate_nps(s))

\* ------------------------------------------------------------ generators
\* The id generator of the bulk operations is a counter closure:
\* each call returns the current value and adds one to it.
respondent_id_fn(gen) == [id |-> gen.next, gen |-> [gen EXCEPT !.next = @ + 1, !.calls = @ + 1]]
GenFrom(start) == [next |-> start, calls |-> 0]

\* a variant that mints no id for a rating it can see is invalid
RECURSIVE Mint_valid_only(_, _, _, _)
Mint_valid_only(gen, score, count, acc) ==
    IF count = 0 \/ score > 10 THEN [gen |-> gen, responses |-> acc]
    ELSE LET g == respondent_id_fn(gen)
         IN  Mint_valid_only(g.gen, score, count - 1, Append(acc, << g.id, score >>))

\* (0..count).map(|_| (respondent_id_fn(), score)).collect()
RECURSIVE Mint(_, _, _, _)
Mint(gen, score, count, acc) ==
    IF count = 0 THEN [gen |-> gen, responses |-> acc]
    ELSE LET g == respondent_id_fn(gen)
         IN  Mint(g.gen, score, count - 1, Append(acc, << g.id, score >>))

\* a variant in which every group starts from the generator as it was
\* handed in (the closure's state is not carried from group to group)
RECURSIVE BulkEach_same_gen(_, _, _, _, _)
BulkEach_same_gen(s, gen, nps_scores, errors, batches) ==
    IF nps_scores = << >>
    THEN [survey |-> s, gen |-> gen, errors |-> errors, batches |-> batches]
    ELSE LET minted == Mint(gen, Head(nps_scores)[1], Head(nps_scores)[2], << >>)
             r == add_multiple_responses(s, minted.responses)
         IN  BulkEach_same_gen(r.survey, gen, Tail(nps_scores),
                      IF r.result.ok THEN errors ELSE errors \o r.result.err,
                      Append(batches, minted.responses))

\* a variant that inserts the pairs of every group without recomputing the
\* score group by group (as one flat batch would)
RECURSIVE BulkEach_flat(_, _, _, _, _)
BulkEach_flat(s, gen, nps_scores, errors, batches) ==
    IF nps_scores = << >>
    THEN [survey |-> s, gen |-> gen, errors |-> errors, batches |-> batches]
    ELSE LET Added(minted, done) ==
                 BulkEach_flat(done.survey, minted.gen, Tail(nps_scores),
                               errors \o done.errors, Append(batches, minted.responses))
             Minted(minted) == Added(minted, AddEach(s, minted.responses, << >>))
         IN  Minted(Mint(gen, Head(nps_scores)[1], Head(nps_scores)[2], << >>))

\* a variant that stops at the first group that failed
RECURSIVE BulkEach_stop_at_error(_, _, _, _, _)
BulkEach_stop_at_error(s, gen, nps_scores, errors, batches) ==
    IF nps_scores = << >>
    THEN [survey |-> s, gen |-> gen, errors |-> errors, batches |-> batches]
    ELSE LET minted == Mint(gen, Head(nps_scores)[1], Head(nps_scores)[2], << >>)
             r == add_multiple_responses(s, minted.responses)
         IN  IF r.result.ok
             THEN BulkEach_stop_at_error(r.survey, minted.gen, Tail(nps_scores),
                      errors, Append(batches, minted.responses))
             ELSE [survey |-> r.survey, gen |-> minted.gen,
                   errors |-> errors \o r.result.err,
                   batches |-> Append(batches, minted.responses)]

\* the flat_map of add_bulk_responses: one add_multiple_responses per group;
\* batches keeps every Vec<(T, u8)> the closure built, in the order built
RECURSIVE BulkEach(_, _, _, _, _)
BulkEach(s, gen, nps_scores, errors, batches) ==
    IF nps_scores = << >>
    THEN [survey |-> s, gen |-> gen, errors |-> errors, batches |-> batches]
    ELSE LET Added(minted, r) ==
                 IF r.result.ok
                 THEN BulkEach(r.survey, minted.gen, Tail(nps_scores),
                               errors, Append(batches, minted.responses))
                 ELSE BulkEach(r.survey, minted.gen, Tail(nps_scores),
                               errors \o r.result.err, Append(batches, minted.responses))
             Minted(minted) == Added(minted, add_multiple_responses(s, minted.responses))
         IN  Minted(Mint(gen, Head(nps_scores)[1], Head(nps_scores)[2], << >>))

\* Survey::add_bulk_responses
add_bulk_responses(s, gen, nps_scores) ==
    LET Finish(done) ==
            IF done.errors = << >>
            THEN [survey |-> calculate_nps(done.survey), gen |-> done.gen,
                  batches |-> done.batches, result |-> Ok(Unit)]
            ELSE [survey |-> done.survey, gen |-> done.gen,
                  batches |-> done.batches, result |-> Err(done.errors)]
    IN  Finish(BulkEach(s, gen, nps_scores, << >>, << >>))

\* Survey<i32>::add_bulk_responses_auto_id: the counter starts at 1i32
add_bulk_responses_auto_id(s, nps_scores) ==
    add_bulk_responses(s, GenFrom(1), nps_scores)

\* impl Extend: BTreeMap::extend inserts every (key, response) in order
RECURSIVE extend(_, _)
extend(s, iter) ==
    IF iter = << >> THEN s
    ELSE extend([s EXCEPT !.responses =
                     MapInsert(s.responses, Head(iter)[1], Head(iter)[2])],
                Tail(iter))

\* a variant that takes the results up to the first Err only
RECURSIVE FilterOk_until_err(_)
FilterOk_until_err(iter) ==
    IF iter = << >> THEN << >>
    ELSE IF Head(iter).ok THEN << Head(iter).val >> \o FilterOk_until_err(Tail(iter))
         ELSE << >>

\* iterator.filter_map(Result::ok)
RECURSIVE FilterOk(_)
FilterOk(iter) ==
    IF iter = << >> THEN << >>
    ELSE IF Head(iter).ok THEN << Head(iter).val >> \o FilterOk(Tail(iter))
         ELSE FilterOk(Tail(iter))

\* impl FromIterator<Result<(T, SurveyResponse<T>), NetPromoterScoreError>>
from_iter(iter) ==
    extend([responses |-> EmptyMap, nps_cache |-> None], FilterOk(iter))

\* ----------------------------------------------------------------- state
\* The survey's two fields, and the caller's view of the call it made last:
\* a call step runs one operation to completion and records it; Return is
\* the caller dropping the returned value before it makes its next call.
VARIABLES
    responses,   \* Survey.responses
    nps_cache,   \* Survey.nps_cache
    op,          \* the operation that produced this state
    args,        \* its arguments
    ret,         \* what it returned
    pre          \* the survey it was called on

vars == << responses, nps_cache, op, args, ret, pre >>

Self == [responses |-> responses, nps_cache |-> nps_cache]

\* sequences over S of length at most n
SeqUpTo(S, n) == UNION {[1 .. k -> S] : k \in 0 .. n}

RECURSIVE SumCounts(_)
SumCounts(nps_scores) ==
    IF nps_scores = << >> THEN 0
    ELSE Head(nps_scores)[2] + SumCounts(Tail(nps_scores))

Pairs == Ids \X RawRatings
Groups == RawRatings \X (0 .. MaxCount)
\* items for extend, built the way the crate's tests build them:
\* SurveyResponse::new(id, rating).map(|resp| (id, resp)), the Ok ones
Items == {<< p[1], SurveyResponse_new(p[1], p[2]).val >> :
              p \in {q \in Pairs : SurveyResponse_new(q[1], q[2]).ok}}

\* results for from_iter, built the way the crate's tests build them:
\* SurveyResponse::new(id, rating).map(|resp| (id, resp))
ResultMap(result, key) ==
    IF result.ok THEN Ok(<< key, result.val >>) ELSE result
Results == {ResultMap(SurveyResponse_new(p[1], p[2]), p[1]) : p \in Pairs}

Init ==
    /\ responses = Survey_new.responses
    /\ nps_cache = Survey_new.nps_cache
    /\ op = "new"
    /\ args = << >>
    /\ ret = Unit
    /\ pre = Survey_new

\* no call is recorded: the caller is about to make one
Quiet == op \in {"new", "idle"}

Commit(survey) ==
    /\ responses' = survey.responses
    /\ nps_cache' = survey.nps_cache
    /\ pre' = Self

AddResponse ==
    /\ Quiet
    /\ \E respondent_id \in Ids, score \in RawRatings :
        \E r \in {add_response(Self, respondent_id, score)} :
            /\ Commit(r.survey)
            /\ op' = "add_response"
            /\ args' = << respondent_id, score >>
            /\ ret' = r.result

AddMultipleResponses ==
    /\ Quiet
    /\ \E input \in SeqUpTo(Pairs, MaxPairs) :
        \E r \in {add_multiple_responses(Self, input)} :
            /\ Commit(r.survey)
            /\ op' = "add_multiple_responses"
            /\ args' = input
            /\ ret' = r.result

AddBulkResponses ==
    /\ Quiet
    /\ \E start \in Ids, nps_scores \in SeqUpTo(Groups, MaxGroups) :
        /\ start + SumCounts(nps_scores) - 1 <= MaxId
        /\ \E r \in {add_bulk_responses(Self, GenFrom(start), nps_scores)} :
               /\ Commit(r.survey)
               /\ op' = "add_bulk_responses"
               /\ args' = [start |-> start, nps_scores |-> nps_scores,
                           calls |-> r.gen.calls, batches |-> r.batches]
               /\ ret' = r.result

AddBulkResponsesAutoId ==
    /\ Quiet
    /\ \E nps_scores \in SeqUpTo(Groups, MaxGroups) :
        /\ SumCounts(nps_scores) <= MaxId
        /\ \E r \in {add_bulk_responses_auto_id(Self, nps_scores)} :
               /\ Commit(r.survey)
               /\ op' = "add_bulk_responses_auto_id"
               /\ args' = nps_scores
               /\ ret' = r.result

Extend ==
    /\ Quiet
    /\ \E iter \in SeqUpTo(Items, MaxItems) :
        /\ Commit(extend(Self, iter))
        /\ op' = "extend"
        /\ args' = iter
        /\ ret' = Unit

\* from_responses is a constructor: the caller uses it in place of new();
\* on Err it is handed no survey and is left with what it had
FromResponses ==
    /\ op = "new"
    /\ \E input \in SeqUpTo(Pairs, MaxPairs) :
        \E r \in {from_responses(input)} :
            /\ Commit(IF r.ok THEN r.val ELSE Self)
            /\ op' = "from_responses"
            /\ args' = input
            /\ ret' = r

\* collecting an iterator of results is a constructor too; it cannot fail
FromIter ==
    /\ op = "new"
    /\ \E iter \in SeqUpTo(Results, MaxResults) :
        \E survey \in {from_iter(iter)} :
            /\ Commit(survey)
            /\ op' = "from_iter"
            /\ args' = iter
            /\ ret' = survey

\* enum Classification
Classifications == {"Detractor", "Passive", "Promoter"}

\* segment(&self, ..) borrows the survey: it cannot change it
Segment ==
    /\ Quiet
    /\ \E classification \in Classifications :
        /\ Commit(Self)
        /\ op' = "segment"
        /\ args' = classification
        /\ ret' = segment(Self, classification)

\* responses() and iteration by reference, each run to its end
Iterate ==
    /\ Quiet
    /\ Commit(Self)
    /\ op' = "iterate"
    /\ args' = << >>
    /\ ret' = [responses |-> Survey_responses(Self), by_ref |-> into_iter_ref(Self)]

\* consuming iteration, run to its end
IntoIter ==
    /\ Quiet
    /\ Commit(Self)
    /\ op' = "into_iter"
    /\ args' = << >>
    /\ ret' = into_iter(Self)

\* consuming iteration moves the survey: the caller has none afterwards
Moved == op = "into_iter"

\* score() may follow any call directly
Score ==
    \E r \in {Survey_score(Self)} :
        /\ ~Moved
        /\ Commit(r.survey)
        /\ op' = "score"
        /\ args' = << >>
        /\ ret' = r.result

Return ==
    /\ ~Quiet
    /\ ~Moved
    /\ op' = "idle"
    /\ args' = << >>
    /\ ret' = Unit
    /\ pre' = Self
    /\ UNCHANGED << responses, nps_cache >>

Next ==
    \/ AddResponse
    \/ AddMultipleResponses
    \/ AddBulkResponses
    \/ AddBulkResponsesAutoId
    \/ Extend
    \/ FromResponses
    \/ FromIter
    \/ Segment
    \/ Iterate
    \/ IntoIter
    \/ Score
    \/ Return

Spec == Init /\ [][Next]_vars

\* ------------------------------------------------ keys chosen by the caller
\* Extend<(T, SurveyResponse<T>)> takes the key and the response apart: the
\* key of an item need not be the respondent id its response was built with
AnyItems == {<< k, SurveyResponse_new(p[1], p[2]).val >> :
                 k \in Ids, p \in {q \in Pairs : SurveyResponse_new(q[1], q[2]).ok}}

\* results for from_iter with any key: SurveyResponse::new(id, rating).map(|resp| (key, resp))
AnyResults == {ResultMap(SurveyResponse_new(p[1], p[2]), k) : k \in Ids, p \in Pairs}

ExtendAny ==
    /\ Quiet
    /\ \E iter \in SeqUpTo(AnyItems, MaxItems) :
        /\ Commit(extend(Self, iter))
        /\ op' = "extend"
        /\ args' = iter
        /\ ret' = Unit

FromIterAny ==
    /\ op = "new"
    /\ \E iter \in SeqUpTo(AnyResults, MaxItems) :
        \E survey \in {from_iter(iter)} :
            /\ Commit(survey)
            /\ op' = "from_iter"
            /\ args' = iter
            /\ ret' = survey

NextKeys ==
    \/ AddResponse
    \/ ExtendAny
    \/ FromIterAny
    \/ Return

SpecKeys == Init /\ [][NextKeys]_vars

\* ---------------------------------------------------- the worked example
\* tests::test_add_bulk_responses: the rating quantities
ExampleQuantities ==
    << <<1, 2>>, <<4, 1>>, <<5, 1>>, <<5, 1>>, <<7, 8>>, <<8, 10>>, <<10, 5>>, <<10, 5>> >>

\* tests::test_add_bulk_responses_auto_id: the rating quantities
ExampleQuantitiesAutoId ==
    << <<1, 2>>, <<4, 1>>, <<5, 2>>, <<7, 8>>, <<8, 10>>, <<10, 10>> >>

\* the test's add_bulk_responses call on a new survey, with a generator
\* that counts up from any first id
ExampleBulk ==
    /\ op = "new"
    /\ \E start \in 1 .. MaxStart :
        \E r \in {add_bulk_responses(Self, GenFrom(start), ExampleQuantities)} :
            /\ Commit(r.survey)
            /\ op' = "add_bulk_responses"
            /\ args' = [start |-> start, nps_scores |-> ExampleQuantities,
                        calls |-> r.gen.calls, batches |-> r.batches]
            /\ ret' = r.result

\* the test's add_bulk_responses_auto_id call on a new survey
ExampleAutoId ==
    /\ op = "new"
    /\ \E r \in {add_bulk_responses_auto_id(Self, ExampleQuantitiesAutoId)} :
           /\ Commit(r.survey)
           /\ op' = "add_bulk_responses_auto_id"
           /\ args' = ExampleQuantitiesAutoId
           /\ ret' = r.result

NextExample ==
    \/ ExampleBulk
    \/ ExampleAutoId
    \/ Score

SpecExample == Init /\ [][NextExample]_vars

\* ------------------------------------------------- the pure conversions
\* Rating::try_from, SurveyResponse::new and the two Classification
\* conversions, applied once to every u8 (and every respondent id).
InitPure ==
    /\ responses = Survey_new.responses
    /\ nps_cache = Survey_new.nps_cache
    /\ op = "input"
    /\ args \in [value : U8, respondent_id : Ids]
    /\ ret = Unit
    /\ pre = Survey_new

TryFrom ==
    /\ op = "input"
    /\ op' = "Rating::try_from"
    /\ ret' = Rating_try_from(args.value)
    /\ UNCHANGED << responses, nps_cache, args, pre >>

New ==
    /\ op = "input"
    /\ op' = "SurveyResponse::new"
    /\ ret' = SurveyResponse_new(args.respondent_id, args.value)
    /\ UNCHANGED << responses, nps_cache, args, pre >>

\* a Rating exists only as the Ok of try_from; it is classified both ways
Classify ==
    /\ op = "input"
    /\ Rating_try_from(args.value).ok
    /\ op' = "Classification::from"
    /\ ret' = [by_ref |-> Classification_from_ref(Rating_try_from(args.value).val),
               by_value |-> Classification_from(Rating_try_from(args.value).val)]
    /\ UNCHANGED << responses, nps_cache, args, pre >>

NextPure ==
    \/ TryFrom
    \/ New
    \/ Classify

SpecPure == InitPure /\ [][NextPure]_vars

\* ================================================================ claims
\* The score the documentation defines, over a response map m:
\* 0 for no responses, otherwise the truncated percentage of promoters
\* (ratings 9..10) minus the truncated percentage of detractors (0..6).
RatingOf(m, k) == m[k].score.inner
PromoterCount(m) == Cardinality({k \in DOMAIN m : RatingOf(m, k) \in 9 .. 10})
DetractorCount(m) == Cardinality({k \in DOMAIN m : RatingOf(m, k) \in 0 .. 6})
Formula(m) ==
    LET n == Cardinality(DOMAIN m)
    IN  IF n = 0 THEN 0
        ELSE ((100 * PromoterCount(m)) \div n) - ((100 * DetractorCount(m)) \div n)

\* the survey holding exactly the given (id, rating) pairs, added one by one
Holding(pairs) == AddEach(Survey_new, pairs, << >>).survey

\* C1: whenever the cached score is present it equals the score recomputed
\* from the stored responses, and every score() returns that score.
C1_CacheCoherent ==
    /\ nps_cache # None => nps_cache[1] = Formula(responses)
    /\ op = "score" => ret = Formula(responses)

\* C2: score() on a survey with no cached value returns 0 for an empty
\* survey and otherwise floor(100*promoters/n) - floor(100*detractors/n);
\* ratings [10,9,9,8,7,6] give 34 and ratings [9,8,6] give 0.
C2_ScoreFormula ==
    /\ (op = "score" /\ pre.nps_cache = None) =>
           /\ ret = Formula(pre.responses)
           /\ (pre.responses = EmptyMap => ret = 0)
    /\ Survey_score(Holding(<< <<1, 10>>, <<2, 9>>, <<3, 9>>, <<4, 8>>,
                               <<5, 7>>, <<6, 6>> >>)).result = 34
    /\ Survey_score(Holding(<< <<1, 9>>, <<2, 8>>, <<3, 6>> >>)).result = 0

\* a fresh score() of three responses, two of them promoters: 66, not 67
C2_Witness ==
    /\ op = "score"
    /\ pre.nps_cache = None
    /\ Cardinality(DOMAIN pre.responses) = 3
    /\ PromoterCount(pre.responses) = 2
    /\ DetractorCount(pre.responses) = 0
    /\ ret = 66

\* C8: Rating::try_from(v) succeeds with a Rating wrapping v iff v <= 10
\* and otherwise fails with InvalidRating(v); SurveyResponse::new(id, v)
\* succeeds or fails on the same values with the same error.
C8_RatingRange ==
    /\ op = "Rating::try_from" =>
           /\ ret.ok <=> args.value <= 10
           /\ ret.ok => ret.val = [inner |-> args.value]
           /\ ~ret.ok => ret.err = [kind |-> "InvalidRating", value |-> args.value]
    /\ op = "SurveyResponse::new" =>
           /\ ret.ok <=> args.value <= 10
           /\ ret.ok => ret.val = [respondent_id |-> args.respondent_id,
                                    score |-> [inner |-> args.value]]
           /\ ~ret.ok => ret.err = [kind |-> "InvalidRating", value |-> args.value]

\* the largest valid rating is accepted by SurveyResponse::new
C8_Witness ==
    /\ op = "SurveyResponse::new"
    /\ args.value = 10
    /\ ret.ok
    /\ ret.val.score.inner = 10

\* C9: a valid Rating is a Detractor iff it is in 0..6, a Passive iff it is
\* 7 or 8, a Promoter iff it is 9 or 10; the three sets are disjoint and
\* cover 0..10; the by-reference and by-value conversions agree.
C9_Classification ==
    /\ op = "Classification::from" =>
           /\ ret.by_ref = "Detractor" <=> args.value \in 0 .. 6
           /\ ret.by_ref = "Passive" <=> args.value \in {7, 8}
           /\ ret.by_ref = "Promoter" <=> args.value \in {9, 10}
           /\ ret.by_value = "Detractor" <=> args.value \in 0 .. 6
           /\ ret.by_value = "Passive" <=> args.value \in {7, 8}
           /\ ret.by_value = "Promoter" <=> args.value \in {9, 10}
    /\ (0 .. 6) \cap {7, 8} = {}
    /\ (0 .. 6) \cap {9, 10} = {}
    /\ {7, 8} \cap {9, 10} = {}
    /\ (0 .. 6) \cup {7, 8} \cup {9, 10} = 0 .. 10

\* the lowest passive rating, classified both ways
C9_Witness ==
    /\ op = "Classification::from"
    /\ args.value = 7
    /\ ret.by_ref = "Passive"
    /\ ret.by_value = "Passive"

\* C3: on a survey whose score is cached, after add_multiple_responses with
\* an input holding at least one valid and at least one invalid pair, the
\* next score() equals the formula over the stored responses.
HasValid(input) == \E i \in 1 .. Len(input) : input[i][2] <= 10
HasInvalid(input) == \E i \in 1 .. Len(input) : input[i][2] > 10
C3_ScoreAfterPartialBatch ==
    [][(/\ op = "add_multiple_responses"
        /\ pre.nps_cache # None
        /\ HasValid(args)
        /\ HasInvalid(args)
        /\ op' = "score") => ret' = Formula(responses')]_vars

\* C4: add_multiple_responses inserts every pair whose rating is in 0..10
\* (the last one per id wins) whatever the other pairs are, returns Ok(())
\* iff no pair is invalid, and otherwise returns one InvalidRating(raw) per
\* invalid pair, in input order.
ValidAt(input, id) == {i \in 1 .. Len(input) : input[i][1] = id /\ input[i][2] <= 10}
LastValid(input, id) ==
    CHOOSE i \in ValidAt(input, id) : \A j \in ValidAt(input, id) : j <= i
InvalidOf(input) ==
    LET Bad(pair) == pair[2] > 10
        bad == SelectSeq(input, Bad)
    IN  [i \in 1 .. Len(bad) |-> [kind |-> "InvalidRating", value |-> bad[i][2]]]
BatchEffect(before, input, after, result) ==
    /\ DOMAIN after =
           DOMAIN before \cup {id \in Ids \cup {input[i][1] : i \in 1 .. Len(input)} :
                                  ValidAt(input, id) # {}}
    /\ \A id \in DOMAIN after :
           after[id] = IF ValidAt(input, id) # {}
                       THEN [respondent_id |-> id,
                             score |-> [inner |-> input[LastValid(input, id)][2]]]
                       ELSE before[id]
    /\ result.ok <=> ~HasInvalid(input)
    /\ result.ok => result.val = Unit
    /\ ~result.ok => result.err = InvalidOf(input)
C4_AccumulateAll ==
    /\ op = "add_multiple_responses" =>
           BatchEffect(pre.responses, args, responses, ret)
    /\ LET input == << <<1, 5>>, <<2, 99>>, <<3, 7>> >>
           r == add_multiple_responses(Survey_new, input)
       IN  /\ DOMAIN r.survey.responses = {1, 3}
           /\ r.result = [ok |-> FALSE,
                          err |-> << [kind |-> "InvalidRating", value |-> 99] >>]

\* an invalid pair followed by a valid pair for a new id: the id is stored
C4_Witness ==
    /\ op = "add_multiple_responses"
    /\ Len(args) = 2
    /\ args[1][2] > 10
    /\ args[2][2] <= 10
    /\ args[2][1] \in DOMAIN responses \ DOMAIN pre.responses
    /\ ~ret.ok
    /\ Len(ret.err) = 1

\* C5: add_response(id, raw) with raw > 10 returns InvalidRating(raw) and
\* leaves the response map and the cached score as they were.
C5_FailedAddUnchanged ==
    (op = "add_response" /\ args[2] > 10) =>
        /\ ret = [ok |-> FALSE, err |-> [kind |-> "InvalidRating", value |-> args[2]]]
        /\ responses = pre.responses
        /\ nps_cache = pre.nps_cache

\* a failed add_response on a survey with responses and a cached score
C5_Witness ==
    /\ op = "add_response"
    /\ args[2] > 10
    /\ ~ret.ok
    /\ pre.responses # EmptyMap
    /\ pre.nps_cache # None

\* C6: a successful add_response(id, r) leaves the map as it was except
\* that id now maps to the response (id, r): an entry for id is overwritten,
\* a new id adds exactly one response, every other entry is unchanged.
C6_AddResponseFrame ==
    (op = "add_response" /\ ret.ok) =>
        LET id == args[1]
            before == pre.responses
        IN  /\ DOMAIN responses = DOMAIN before \cup {id}
            /\ responses[id] = [respondent_id |-> id, score |-> [inner |-> args[2]]]
            /\ \A k \in DOMAIN before \ {id} : responses[k] = before[k]
            /\ id \in DOMAIN before =>
                   Cardinality(DOMAIN responses) = Cardinality(DOMAIN before)
            /\ id \notin DOMAIN before =>
                   Cardinality(DOMAIN responses) = Cardinality(DOMAIN before) + 1

\* an id stored with rating 6 is given rating 9: one entry, rating 9
C6_Witness ==
    /\ op = "add_response"
    /\ ret.ok
    /\ args[1] \in DOMAIN pre.responses
    /\ pre.responses[args[1]].score.inner = 6
    /\ args[2] = 9
    /\ responses[args[1]].score.inner = 9
    /\ Cardinality(DOMAIN responses) = Cardinality(DOMAIN pre.responses)

\* C7: every value score() returns, and every cached value, is in
\* -100..100; a fresh score() of a non-empty survey is -100 exactly when
\* all responses are detractors and 100 exactly when all are promoters.
C7_ScoreRange ==
    /\ nps_cache # None => nps_cache[1] \in -100 .. 100
    /\ op = "score" => ret \in -100 .. 100
    /\ (op = "score" /\ pre.nps_cache = None /\ pre.responses # EmptyMap) =>
           LET n == Cardinality(DOMAIN pre.responses)
           IN  /\ ret = -100 <=> DetractorCount(pre.responses) = n
               /\ ret = 100 <=> PromoterCount(pre.responses) = n

\* a fresh score() of three detractors
C7_Witness ==
    /\ op = "score"
    /\ pre.nps_cache = None
    /\ Cardinality(DOMAIN pre.responses) = 3
    /\ DetractorCount(pre.responses) = 3
    /\ ret = -100

\* C10: add_bulk_responses_auto_id with valid ratings assigns ids distinct
\* from each other and from the ids already stored: the number of stored
\* responses grows by the sum of the counts and no stored response changes.
AllValid(nps_scores) == \A i \in 1 .. Len(nps_scores) : nps_scores[i][1] <= 10
C10_AutoIdsUnique ==
    (op = "add_bulk_responses_auto_id" /\ AllValid(args)) =>
        /\ Cardinality(DOMAIN responses) =
               Cardinality(DOMAIN pre.responses) + SumCounts(args)
        /\ \A k \in DOMAIN pre.responses :
               k \in DOMAIN responses /\ responses[k] = pre.responses[k]

\* the (id, rating) pairs a counter starting at first is expected to mint
\* for the k-th group, and for all groups
Before(nps_scores, k) == SumCounts(SubSeq(nps_scores, 1, k - 1))
ExpectedBatch(first, nps_scores, k) ==
    [j \in 1 .. nps_scores[k][2] |->
        << first + Before(nps_scores, k) + j - 1, nps_scores[k][1] >>]
ExpectedBatches(first, nps_scores) ==
    [k \in 1 .. Len(nps_scores) |-> ExpectedBatch(first, nps_scores, k)]
RECURSIVE Concat(_)
Concat(seqs) == IF seqs = << >> THEN << >> ELSE Head(seqs) \o Concat(Tail(seqs))

\* C11: within one add_bulk_responses_auto_id call the j-th generated
\* response gets id j, across all groups: every valid group's rating is
\* held by the ids of its contiguous block, and on an empty survey with all
\* ratings valid the stored ids are exactly 1..sum(counts).
C11_AutoIdSequence ==
    op = "add_bulk_responses_auto_id" =>
        LET Block(k) == {Before(args, k) + j : j \in 1 .. args[k][2]}
            ValidGroups == {k \in 1 .. Len(args) : args[k][1] <= 10}
        IN  /\ \A k \in ValidGroups : \A id \in Block(k) :
                   /\ id \in DOMAIN responses
                   /\ responses[id] = [respondent_id |-> id,
                                       score |-> [inner |-> args[k][1]]]
            /\ DOMAIN responses =
                   DOMAIN pre.responses \cup UNION {Block(k) : k \in ValidGroups}
            /\ (pre.responses = EmptyMap /\ AllValid(args)) =>
                   DOMAIN responses = 1 .. SumCounts(args)

\* two detractors then a promoter on an empty survey: ids 1, 2 and 3
C11_Witness ==
    /\ op = "add_bulk_responses_auto_id"
    /\ pre.responses = EmptyMap
    /\ args = << <<6, 2>>, <<9, 1>> >>
    /\ DOMAIN responses = {1, 2, 3}
    /\ responses[2].score.inner = 6
    /\ responses[3].score.inner = 9

\* C12: add_bulk_responses calls the id generator exactly count times for
\* each (rating, count) pair, in input order, valid rating or not: the calls
\* of one call total the sum of the counts, group k's ids are minted before
\* group k+1's, and a count of 0 mints nothing.
C12_GeneratorCalls ==
    op = "add_bulk_responses" =>
        /\ args.calls = SumCounts(args.nps_scores)
        /\ args.batches = ExpectedBatches(args.start, args.nps_scores)
        /\ \A k \in 1 .. Len(args.nps_scores) :
               /\ Len(args.batches[k]) = args.nps_scores[k][2]
               /\ args.nps_scores[k][2] = 0 => args.batches[k] = << >>

\* an invalid group of two followed by a valid group of one: three calls
C12_Witness ==
    /\ op = "add_bulk_responses"
    /\ args.start = 1
    /\ args.nps_scores = << <<11, 2>>, <<9, 1>> >>
    /\ args.calls = 3
    /\ args.batches[2] = << <<3, 9>> >>

\* C13: add_bulk_responses accumulates all errors: an invalid group gives
\* count errors InvalidRating(rating) and inserts nothing, a valid group is
\* inserted whatever the other groups are, the errors are returned in group
\* order, and the call returns Ok(()) iff there is no error at all.
C13_BulkAccumulates ==
    op = "add_bulk_responses" =>
        LET flat == Concat(ExpectedBatches(args.start, args.nps_scores))
            InvalidGroups == {k \in 1 .. Len(args.nps_scores) :
                                 args.nps_scores[k][1] > 10}
            GroupErrors(k) ==
                [j \in 1 .. args.nps_scores[k][2] |->
                    [kind |-> "InvalidRating", value |-> args.nps_scores[k][1]]]
            Expected ==
                Concat([k \in 1 .. Len(args.nps_scores) |->
                           IF k \in InvalidGroups THEN GroupErrors(k) ELSE << >>])
        IN  /\ BatchEffect(pre.responses, flat, responses, ret)
            /\ ret.ok <=> Expected = << >>
            /\ ~ret.ok => ret.err = Expected
            /\ (\A k \in InvalidGroups : args.nps_scores[k][2] = 0) => ret.ok

\* an invalid group of one, then a valid group of one for a new id
C13_Witness ==
    /\ op = "add_bulk_responses"
    /\ args.nps_scores = << <<11, 1>>, <<9, 1>> >>
    /\ ret = [ok |-> FALSE, err |-> << [kind |-> "InvalidRating", value |-> 11] >>]
    /\ args.start + 1 \in DOMAIN responses \ DOMAIN pre.responses
    /\ args.start \notin DOMAIN responses

\* C14: from_responses(pairs) with valid ratings only returns Ok with the
\* survey new() followed by add_multiple_responses(pairs) builds (exactly
\* those pairs, last write per id wins, the right score); with an invalid
\* rating it returns only Err, one converted error per invalid pair in input
\* order, and no survey.
C14_FromResponses ==
    op = "from_responses" =>
        /\ ret.ok <=> ~HasInvalid(args)
        /\ ret.ok =>
               /\ ret.val = add_multiple_responses(Survey_new, args).survey
               /\ BatchEffect(EmptyMap, args, ret.val.responses, [ok |-> TRUE, val |-> Unit])
               /\ Survey_score(ret.val).result = Formula(ret.val.responses)
               /\ Self = ret.val
        /\ ~ret.ok =>
               /\ DOMAIN ret = {"ok", "err"}
               /\ ret.err = [i \in 1 .. Len(InvalidOf(args)) |->
                                 [source |-> InvalidOf(args)[i]]]
               /\ Self = pre

\* a valid pair and an invalid pair: only the error comes back
C14_Witness ==
    /\ op = "from_responses"
    /\ args = << <<1, 9>>, <<2, 11>> >>
    /\ ~ret.ok
    /\ Len(ret.err) = 1
    /\ responses = EmptyMap

\* C15: collecting a sequence of Result<(id, response), error> items never
\* fails and drops every Err item: the survey holds exactly the Ok items
\* (the last Ok item of a key wins) and no cached score, and its first
\* score() is the formula over those items.
OkAt(iter, key) == {i \in 1 .. Len(iter) : iter[i].ok /\ iter[i].val[1] = key}
LastOk(iter, key) == CHOOSE i \in OkAt(iter, key) : \A j \in OkAt(iter, key) : j <= i
Collected(iter, survey) ==
    /\ DOMAIN survey.responses = {key \in Ids : OkAt(iter, key) # {}}
    /\ \A key \in DOMAIN survey.responses :
           survey.responses[key] = iter[LastOk(iter, key)].val[2]
    /\ survey.nps_cache = << >>
C15_FromIterator ==
    [][/\ op' = "from_iter" =>
              /\ Collected(args', [responses |-> responses', nps_cache |-> nps_cache'])
              /\ ret' = [responses |-> responses', nps_cache |-> nps_cache']
       /\ (op = "from_iter" /\ op' = "score") => ret' = Formula(responses)]_vars

\* an Err item followed by an Ok item: a survey of one response, no cache
C15_Witness ==
    /\ op = "from_iter"
    /\ Len(args) = 2
    /\ ~args[1].ok
    /\ args[2].ok
    /\ Cardinality(DOMAIN responses) = 1
    /\ nps_cache = << >>

\* the classification the documentation gives a rating
ClassOf(rating) ==
    IF rating \in 0 .. 6 THEN "Detractor"
    ELSE IF rating \in 7 .. 8 THEN "Passive"
    ELSE IF rating \in 9 .. 10 THEN "Promoter"
    ELSE "none"
KeysOfClass(m, c) == {k \in DOMAIN m : ClassOf(RatingOf(m, k)) = c}
Elements(seq) == {seq[i] : i \in 1 .. Len(seq)}

\* C16: segment(c) returns exactly the stored responses whose rating
\* classifies as c, each once; the three segments are pairwise disjoint and
\* their sizes sum to the number of stored responses; segment leaves the
\* survey as it was.
C16_SegmentExact ==
    /\ op = "segment" =>
           /\ Elements(ret) = {responses[k] : k \in KeysOfClass(responses, args)}
           /\ Len(ret) = Cardinality(KeysOfClass(responses, args))
           /\ responses = pre.responses
           /\ nps_cache = pre.nps_cache
    /\ \A c \in {"Detractor", "Passive", "Promoter"} :
           /\ Elements(segment(Self, c)) = {responses[k] : k \in KeysOfClass(responses, c)}
           /\ Len(segment(Self, c)) = Cardinality(KeysOfClass(responses, c))
           /\ \A d \in {"Detractor", "Passive", "Promoter"} \ {c} :
                  Elements(segment(Self, c)) \cap Elements(segment(Self, d)) = {}
    /\ Len(segment(Self, "Detractor")) + Len(segment(Self, "Passive"))
           + Len(segment(Self, "Promoter")) = Cardinality(DOMAIN responses)

\* the promoters of a survey whose first response is a detractor
C16_Witness ==
    /\ op = "segment"
    /\ args = "Promoter"
    /\ DOMAIN responses = {1, 2, 3}
    /\ responses[1].score.inner = 6
    /\ Len(ret) = 2
    /\ ret[1].respondent_id = 2

\* C17: responses(), iteration by reference, consuming iteration and
\* segment() yield the responses in ascending respondent id order, whatever
\* the insertion order and the ratings: inserting the same pairs with
\* distinct ids in the opposite order gives the same sequences.
AscendingIds(seq) ==
    \A i \in 1 .. Len(seq) : \A j \in 1 .. Len(seq) :
        i < j => seq[i].respondent_id < seq[j].respondent_id
AllOf(seq, m) == Len(seq) = Cardinality(DOMAIN m) /\ Elements(seq) = {m[k] : k \in DOMAIN m}
Reverse(seq) == [i \in 1 .. Len(seq) |-> seq[Len(seq) + 1 - i]]
DistinctIds(input) ==
    \A i \in 1 .. Len(input) : \A j \in 1 .. Len(input) :
        i # j => input[i][1] # input[j][1]
C18_WorkedExample ==
    /\ op \in {"add_bulk_responses", "add_bulk_responses_auto_id"} =>
           /\ ret = Ok(Unit)
           /\ Cardinality(DOMAIN responses) = 33
    /\ (op = "score" /\ pre.responses # EmptyMap) =>
           /\ Cardinality(DOMAIN responses) = 33
           /\ ret = 15

\* score() after the test's bulk call with ids 7 .. 39
C18_Witness ==
    /\ op = "score"
    /\ DOMAIN responses = 7 .. 39
    /\ ret = 15

\* C19: every stored response holds a rating in 0..10, so the conversion
\* to a Classification that segment() and score() apply to each stored
\* rating never takes its unreachable arm.
C19_StoredRatingsValid ==
    /\ \A k \in DOMAIN responses :
           /\ Deref(responses[k].score) \in 0 .. 10
           /\ Classification_from_ref(responses[k].score) # "unreachable"
           /\ Classification_from(responses[k].score) # "unreachable"
    /\ op = "segment" =>
           \A i \in 1 .. Len(ret) : Classification_from_ref(ret[i].score) = args

\* score() computed over one stored detractor, passive and promoter
C19_Witness ==
    /\ op = "score"
    /\ pre.nps_cache = None
    /\ DOMAIN responses = {1, 2, 3}
    /\ {Classification_from_ref(responses[k].score) : k \in DOMAIN responses}
           = {"Detractor", "Passive", "Promoter"}
    /\ ret = 0

\* C20: in every state reachable through the insertion operations, extend
\* and collecting from an iterator of results, each stored key equals the
\* respondent id of the response stored under it.
C20_KeysMatchIds ==
    \A k \in DOMAIN responses : responses[k].respondent_id = k

\* the cached score is there but is not the score of the stored responses
Stale(survey) ==
    /\ survey.nps_cache # None
    /\ survey.nps_cache[1] # Formula(survey.responses)

\* C21: whenever add_multiple_responses, add_bulk_responses or
\* add_bulk_responses_auto_id returns Ok(()), the cached score is present
\* and equals the formula over the stored responses, whatever the cache was
\* before the call, and a score() that follows at once returns that value.
C21_CacheAfterOk ==
    [][/\ (/\ op' \in {"add_multiple_responses", "add_bulk_responses",
                       "add_bulk_responses_auto_id"}
           /\ ret'.ok) => nps_cache' = Some(Formula(responses'))
       /\ (/\ op \in {"add_multiple_responses", "add_bulk_responses",
                      "add_bulk_responses_auto_id"}
           /\ ret.ok
           /\ op' = "score") => /\ ret' = Formula(responses)
                                /\ responses' = responses]_vars

\* add_multiple_responses returns Ok on a survey whose cached score was
\* stale, and the score it leaves is the new one
C21_Witness ==
    /\ op = "add_multiple_responses"
    /\ ret = Ok(Unit)
    /\ Len(args) = 2
    /\ Stale(pre)
    /\ nps_cache = Some(Formula(responses))
    /\ nps_cache # pre.nps_cache

\* C22: when add_bulk_responses returns Err and at least one of its groups
\* has a valid rating, the cached score on return is present and equals
\* the formula over the stored responses.
HasValidGroup(nps_scores) == \E k \in 1 .. Len(nps_scores) : nps_scores[k][1] <= 10
C22_CacheAfterPartialBulk ==
    /\ (op = "add_bulk_responses" /\ ~ret.ok /\ HasValidGroup(args.nps_scores)) =>
           nps_cache = Some(Formula(responses))
    /\ (op = "add_bulk_responses_auto_id" /\ ~ret.ok /\ HasValidGroup(args)) =>
           nps_cache = Some(Formula(responses))

\* a valid group, then an invalid one, on a survey whose cache was stale
C22_Witness ==
    /\ op = "add_bulk_responses"
    /\ args.nps_scores = << <<9, 1>>, <<11, 1>> >>
    /\ Stale(pre)
    /\ ~ret.ok
    /\ DOMAIN responses # DOMAIN pre.responses
    /\ nps_cache = Some(Formula(responses))

====
